---- MODULE Spec2Model ----
(***************************************************************************)
(* State-machine model of the ink! escrow contract in src/lib.rs.          *)
(*                                                                         *)
(* The storage struct Escrow is the six variables asset_id .. status.      *)
(* Every #[ink(message)] is one action that runs the whole handler.  What  *)
(* a message shows to the outside is recorded for the last message run:    *)
(*   call          the message, its caller and its arguments               *)
(*   emitted       the EscrowEvents it emitted (self.env().emit_event)     *)
(*   runtime_calls the Assets::Transfer calls it handed to call_runtime,   *)
(*                 each with the result the runtime gave                   *)
(*   ret           the value it returned                                   *)
(*   pre           the storage as it was when the message started          *)
(* transfers_ok and released count, over the whole run, the transfers the  *)
(* runtime accepted and the accounts release / force_release removed; only *)
(* HistSpec records them.                                                  *)
(*   inert         the ledger was built by default() and no setup has      *)
(*                 given it a capacity above 0 since                       *)
(*   pc, cast      the step reached and the identities playing the parts   *)
(*                 when a fixed sequence of messages is run (Scenario)     *)
(*   prior         the message before the last one (its call, events and   *)
(*                 starting storage), kept by PairSpec for the pairs of    *)
(*                 messages it follows                                     *)
(*   attempts      for each holder, the call_runtime transfers made, and   *)
(*                 those accepted, for the account add last created for    *)
(*                 that holder (AttemptSpec)                               *)
(*   audit         the adds that succeeded, the sum of their amounts, the  *)
(*                 sum the runtime accepted for transfer, the sum of the   *)
(*                 balances setup dropped, and for each holder held the    *)
(*                 asset_id at the time of its add (AuditSpec)             *)
(* The runtime's answer to call_runtime is outside the contract: both      *)
(* answers are possible whenever the call is made.                         *)
(*                                                                         *)
(* Error tags are the source's: EscrowIsClose (the spec's EscrowClosed),   *)
(* EscrowAccountDuplicate (AccountDuplicate), EscrowAccountMax             *)
(* (AccountCapacityExceeded), EscrowAccountNotFound (AccountNotFound).     *)
(***************************************************************************)
EXTENDS Integers, Sequences, FiniteSets, TLC

VARIABLES asset_id, owner, manager, maximum_accounts, accounts, status,
          call, emitted, runtime_calls, ret, pre, transfers_ok, released,
          inert, pc, cast, prior, attempts, audit

storage == <<asset_id, owner, manager, maximum_accounts, accounts, status>>
hist == <<transfers_ok, released>>
script == <<pc, cast>>
books == <<attempts, audit>>
vars == <<asset_id, owner, manager, maximum_accounts, accounts, status,
          call, emitted, runtime_calls, ret, pre, transfers_ok, released,
          inert, pc, cast, prior, attempts, audit>>

\* the storage struct Escrow as one value
now ==
  [asset_id |-> asset_id, owner |-> owner, manager |-> manager,
   maximum_accounts |-> maximum_accounts, accounts |-> accounts, status |-> status]

----------------------------------------------------------------------------
(* Bounds of the model and the value sets the inputs are drawn from.       *)

\* largest maximum_accounts given to new and setup
MaxCapacity == 2

\* u16: the width of maximum_accounts and of `accounts.len() as u16`
U16 == 65536

\* most successful transfers HistSpec follows
MaxTransfers == 3

\* most transfers AttemptSpec follows for one account
MaxAttempts == 2

\* most successful adds AuditSpec follows
MaxAdds == 2

AccountIds == {"alice", "bob", "carol"}
Deployers == {"alice"}
Managers == {"alice", "bob"}
Holders == {"bob", "carol"}
Recipients == {"bob", "dave"}
AssetIds == {0, 7}
Capacities == 0..MaxCapacity
References == {1}
Amounts == {10, 100}

----------------------------------------------------------------------------
(* Values the contract builds.                                             *)

\* EscrowStatus::EmitSuccess(s) / EscrowStatus::EmitError(e)
EmitSuccess(s) == <<"EmitSuccess", s>>
EmitError(e) == <<"EmitError", e>>

\* (bug) the event names the owner where the code names the caller
EscrowEvent_owner(operator, st) == [operator |-> owner, status |-> st]

\* EscrowEvent { operator, status }
EscrowEvent(operator, st) == [operator |-> operator, status |-> st]

\* Account { reference, account, balance: amount, recipient, status: 1 }
Account(reference, account, amount, recipient) ==
  [reference |-> reference, account |-> account, balance |-> amount,
   recipient |-> recipient, status |-> 1]

\* RuntimeCall::Assets(AssetsCall::Transfer { id, target, amount })
Transfer(id, target, amount) == [id |-> id, target |-> target, amount |-> amount]

\* Ok(()) and Err(RuntimeError::CallRuntimeFailed) (through `?`)
Ok == <<"Ok">>
Err(e) == <<"Err", e>>

----------------------------------------------------------------------------
(* The conditions and helpers of the handlers.                             *)

\* (bug) every origin check compares the caller with the owner
BadOrigin_owner(caller, who) == caller # owner

\* self.env().caller() != self.owner / != self.manager
BadOrigin(caller, who) == caller # who

\* (bug) the status test is off by one: self.status > 1
EscrowIsClose_gt(st) == st > 1

\* self.status != 0
EscrowIsClose(st) == st # 0

\* (bug) the duplicate scan looks at the first entry only
EscrowAccountDuplicate_first(accts, account) ==
  Len(accts) >= 1 /\ accts[1].account = account

\* for a in self.accounts.iter_mut() { if a.account == account { .. } }
EscrowAccountDuplicate(accts, account) ==
  \E i \in 1..Len(accts) : accts[i].account = account

\* (bug) the capacity test is > where the code has >=
EscrowAccountMax_gt(accts, max) == (Len(accts) % U16) > max

\* self.accounts.len() as u16 >= self.maximum_accounts
EscrowAccountMax(accts, max) == (Len(accts) % U16) >= max

\* for i in 0..self.accounts.len() { if self.accounts[i].account == who ..
\* the first index (1-based) whose account is who, 0 when the loop ends
Locate(accts, who) ==
  IF \E i \in 1..Len(accts) : accts[i].account = who
    THEN CHOOSE i \in 1..Len(accts) :
           /\ accts[i].account = who
           /\ \A j \in 1..(i - 1) : accts[j].account # who
    ELSE 0

\* (bug) Vec::pop() where the code has swap_remove(i)
swap_remove_pop(accts, i) == SubSeq(accts, 1, Len(accts) - 1)

\* Vec::swap_remove(i): the last element takes the place of element i
swap_remove(accts, i) ==
  [j \in 1..(Len(accts) - 1) |-> IF j = i THEN accts[Len(accts)] ELSE accts[j]]

\* (bug) release pays the holder, not the recipient of the account
release_target_holder(acct) == acct.account

\* release: target: self.accounts[i].recipient.into()
release_target(acct) == acct.recipient

\* (bug) force_release pays the stored recipient, as release does
force_release_target_stored(acct, recipient) == acct.recipient

\* force_release: target: recipient.into()
force_release_target(acct, recipient) == recipient

----------------------------------------------------------------------------
(* Constructors.                                                           *)

new(caller, p_asset_id, p_maximum_accounts) ==
  /\ asset_id = p_asset_id
  /\ owner = caller
  /\ manager = caller
  /\ maximum_accounts = p_maximum_accounts
  /\ accounts = <<>>
  /\ status = 0
  /\ call = [op |-> "new", caller |-> caller, asset_id |-> p_asset_id,
             maximum_accounts |-> p_maximum_accounts]
  /\ emitted = <<>>
  /\ runtime_calls = <<>>
  /\ ret = <<"Self">>
  /\ pre = now
  /\ transfers_ok = 0
  /\ released = 0
  /\ inert = FALSE

default(caller) ==
  /\ asset_id = 0
  /\ owner = caller
  /\ manager = caller
  /\ maximum_accounts = 0
  /\ accounts = <<>>
  /\ status = 0
  /\ call = [op |-> "default", caller |-> caller]
  /\ emitted = <<>>
  /\ runtime_calls = <<>>
  /\ ret = <<"Self">>
  /\ pre = now
  /\ transfers_ok = 0
  /\ released = 0
  /\ inert = TRUE

\* no fixed sequence of messages is being run
NoBooks ==
  /\ attempts = [h \in Holders |-> [made |-> 0, accepted |-> 0]]
  /\ audit = [adds |-> 0, added |-> 0, paid |-> 0, discarded |-> 0, under |-> <<>>]
NoScript == pc = 0 /\ cast = <<>> /\ prior = <<>> /\ NoBooks

Init ==
  \/ \E c \in Deployers, a \in AssetIds, n \in Capacities : new(c, a, n) /\ NoScript
  \/ \E c \in Deployers : default(c) /\ NoScript

----------------------------------------------------------------------------
(* Messages.                                                               *)

\* (bug) setup assigns its manager argument to self.owner
setup_sets_owner(caller, p_asset_id, p_manager, p_maximum_accounts) ==
  /\ call' = [op |-> "setup", caller |-> caller, asset_id |-> p_asset_id,
              manager |-> p_manager, maximum_accounts |-> p_maximum_accounts]
  /\ runtime_calls' = <<>>
  /\ ret' = Ok
  /\ IF BadOrigin(caller, owner)
       THEN /\ emitted' = <<EscrowEvent(caller, EmitError("BadOrigin"))>>
            /\ UNCHANGED storage
       ELSE /\ asset_id' = p_asset_id
            /\ owner' = p_manager
            /\ maximum_accounts' = p_maximum_accounts
            /\ accounts' = <<>>
            /\ status' = 0
            /\ emitted' = <<EscrowEvent(caller, EmitSuccess("EscrowSetupSuccess"))>>
            /\ UNCHANGED manager

\* (bug) setup adds its argument to the capacity: self.maximum_accounts += ..
setup_adds_capacity(caller, p_asset_id, p_manager, p_maximum_accounts) ==
  /\ call' = [op |-> "setup", caller |-> caller, asset_id |-> p_asset_id,
              manager |-> p_manager, maximum_accounts |-> p_maximum_accounts]
  /\ runtime_calls' = <<>>
  /\ ret' = Ok
  /\ IF BadOrigin(caller, owner)
       THEN /\ emitted' = <<EscrowEvent(caller, EmitError("BadOrigin"))>>
            /\ UNCHANGED storage
       ELSE /\ asset_id' = p_asset_id
            /\ manager' = p_manager
            /\ maximum_accounts' = (maximum_accounts + p_maximum_accounts) % U16
            /\ accounts' = <<>>
            /\ status' = 0
            /\ emitted' = <<EscrowEvent(caller, EmitSuccess("EscrowSetupSuccess"))>>
            /\ UNCHANGED owner

\* (bug) setup without `self.status = 0`
setup_keeps_status(caller, p_asset_id, p_manager, p_maximum_accounts) ==
  /\ call' = [op |-> "setup", caller |-> caller, asset_id |-> p_asset_id,
              manager |-> p_manager, maximum_accounts |-> p_maximum_accounts]
  /\ runtime_calls' = <<>>
  /\ ret' = Ok
  /\ IF BadOrigin(caller, owner)
       THEN /\ emitted' = <<EscrowEvent(caller, EmitError("BadOrigin"))>>
            /\ UNCHANGED storage
       ELSE /\ asset_id' = p_asset_id
            /\ manager' = p_manager
            /\ maximum_accounts' = p_maximum_accounts
            /\ accounts' = <<>>
            /\ emitted' = <<EscrowEvent(caller, EmitSuccess("EscrowSetupSuccess"))>>
            /\ UNCHANGED <<owner, status>>

setup(caller, p_asset_id, p_manager, p_maximum_accounts) ==
  /\ call' = [op |-> "setup", caller |-> caller, asset_id |-> p_asset_id,
              manager |-> p_manager, maximum_accounts |-> p_maximum_accounts]
  /\ runtime_calls' = <<>>
  /\ ret' = Ok
  /\ IF BadOrigin(caller, owner)
       THEN /\ emitted' = <<EscrowEvent(caller, EmitError("BadOrigin"))>>
            /\ UNCHANGED storage
       ELSE /\ asset_id' = p_asset_id
            /\ manager' = p_manager
            /\ maximum_accounts' = p_maximum_accounts
            /\ accounts' = <<>>
            /\ status' = 0
            /\ emitted' = <<EscrowEvent(caller, EmitSuccess("EscrowSetupSuccess"))>>
            /\ UNCHANGED owner

get(caller) ==
  /\ call' = [op |-> "get", caller |-> caller]
  /\ runtime_calls' = <<>>
  /\ emitted' = <<>>
  /\ ret' = <<asset_id, owner, manager, maximum_accounts, status>>
  /\ UNCHANGED storage

\* (bug) close writes the status before it checks the origin
close_writes_first(caller) ==
  /\ call' = [op |-> "close", caller |-> caller]
  /\ runtime_calls' = <<>>
  /\ ret' = Ok
  /\ status' = 1
  /\ emitted' = IF BadOrigin(caller, manager)
                  THEN <<EscrowEvent(caller, EmitError("BadOrigin"))>>
                  ELSE <<EscrowEvent(caller, EmitSuccess("EscrowCloseSuccess"))>>
  /\ UNCHANGED <<asset_id, owner, manager, maximum_accounts, accounts>>

close(caller) ==
  /\ call' = [op |-> "close", caller |-> caller]
  /\ runtime_calls' = <<>>
  /\ ret' = Ok
  /\ IF BadOrigin(caller, manager)
       THEN /\ emitted' = <<EscrowEvent(caller, EmitError("BadOrigin"))>>
            /\ UNCHANGED storage
       ELSE /\ status' = 1
            /\ emitted' = <<EscrowEvent(caller, EmitSuccess("EscrowCloseSuccess"))>>
            /\ UNCHANGED <<asset_id, owner, manager, maximum_accounts, accounts>>

\* (bug) open flips the status where the code sets it to 0
open_toggles(caller) ==
  /\ call' = [op |-> "open", caller |-> caller]
  /\ runtime_calls' = <<>>
  /\ ret' = Ok
  /\ IF BadOrigin(caller, manager)
       THEN /\ emitted' = <<EscrowEvent(caller, EmitError("BadOrigin"))>>
            /\ UNCHANGED storage
       ELSE /\ status' = 1 - status
            /\ emitted' = <<EscrowEvent(caller, EmitSuccess("EscrowOpenSuccess"))>>
            /\ UNCHANGED <<asset_id, owner, manager, maximum_accounts, accounts>>

open(caller) ==
  /\ call' = [op |-> "open", caller |-> caller]
  /\ runtime_calls' = <<>>
  /\ ret' = Ok
  /\ IF BadOrigin(caller, manager)
       THEN /\ emitted' = <<EscrowEvent(caller, EmitError("BadOrigin"))>>
            /\ UNCHANGED storage
       ELSE /\ status' = 0
            /\ emitted' = <<EscrowEvent(caller, EmitSuccess("EscrowOpenSuccess"))>>
            /\ UNCHANGED <<asset_id, owner, manager, maximum_accounts, accounts>>

\* (bug) add tests the capacity before it looks for a duplicate
add_capacity_first(caller, reference, account, amount, recipient) ==
  /\ call' = [op |-> "add", caller |-> caller, reference |-> reference,
              account |-> account, amount |-> amount, recipient |-> recipient]
  /\ runtime_calls' = <<>>
  /\ ret' = Ok
  /\ IF BadOrigin(caller, manager)
       THEN /\ emitted' = <<EscrowEvent(caller, EmitError("BadOrigin"))>>
            /\ UNCHANGED storage
       ELSE IF EscrowIsClose(status)
       THEN /\ emitted' = <<EscrowEvent(caller, EmitError("EscrowIsClose"))>>
            /\ UNCHANGED storage
       ELSE IF EscrowAccountMax(accounts, maximum_accounts)
       THEN /\ emitted' = <<EscrowEvent(caller, EmitError("EscrowAccountMax"))>>
            /\ UNCHANGED storage
       ELSE IF EscrowAccountDuplicate(accounts, account)
       THEN /\ emitted' = <<EscrowEvent(caller, EmitError("EscrowAccountDuplicate"))>>
            /\ UNCHANGED storage
       ELSE /\ accounts' = Append(accounts, Account(reference, account, amount, recipient))
            /\ emitted' = <<EscrowEvent(caller, EmitSuccess("EscrowAccountAdded"))>>
            /\ UNCHANGED <<asset_id, owner, manager, maximum_accounts, status>>

add(caller, reference, account, amount, recipient) ==
  /\ call' = [op |-> "add", caller |-> caller, reference |-> reference,
              account |-> account, amount |-> amount, recipient |-> recipient]
  /\ runtime_calls' = <<>>
  /\ ret' = Ok
  /\ IF BadOrigin(caller, manager)
       THEN /\ emitted' = <<EscrowEvent(caller, EmitError("BadOrigin"))>>
            /\ UNCHANGED storage
       ELSE IF EscrowIsClose(status)
       THEN /\ emitted' = <<EscrowEvent(caller, EmitError("EscrowIsClose"))>>
            /\ UNCHANGED storage
       ELSE IF EscrowAccountDuplicate(accounts, account)
       THEN /\ emitted' = <<EscrowEvent(caller, EmitError("EscrowAccountDuplicate"))>>
            /\ UNCHANGED storage
       ELSE IF EscrowAccountMax(accounts, maximum_accounts)
       THEN /\ emitted' = <<EscrowEvent(caller, EmitError("EscrowAccountMax"))>>
            /\ UNCHANGED storage
       ELSE /\ accounts' = Append(accounts, Account(reference, account, amount, recipient))
            /\ emitted' = <<EscrowEvent(caller, EmitSuccess("EscrowAccountAdded"))>>
            /\ UNCHANGED <<asset_id, owner, manager, maximum_accounts, status>>

\* (bug) the account is paid out and reported released, but stays in the list
ReleaseFound_keeps_account(caller, i, target, transfer_ok) ==
  /\ runtime_calls' = <<[call |-> Transfer(asset_id, target, accounts[i].balance),
                         ok |-> transfer_ok]>>
  /\ IF transfer_ok
       THEN /\ emitted' = <<EscrowEvent(caller, EmitSuccess("EscrowAccountReleased"))>>
            /\ ret' = Ok
       ELSE /\ emitted' = <<>>
            /\ ret' = Err("CallRuntimeFailed")
  /\ UNCHANGED storage

\* (bug) the result of call_runtime is dropped: the account goes either way
ReleaseFound_ignores_result(caller, i, target, transfer_ok) ==
  /\ runtime_calls' = <<[call |-> Transfer(asset_id, target, accounts[i].balance),
                         ok |-> transfer_ok]>>
  /\ accounts' = swap_remove(accounts, i)
  /\ emitted' = <<EscrowEvent(caller, EmitSuccess("EscrowAccountReleased"))>>
  /\ ret' = Ok
  /\ UNCHANGED <<asset_id, owner, manager, maximum_accounts, status>>

\* (bug) a refused transfer is tried once more
ReleaseFound_retries(caller, i, target, transfer_ok) ==
  /\ runtime_calls' =
       IF transfer_ok
         THEN <<[call |-> Transfer(asset_id, target, accounts[i].balance), ok |-> TRUE]>>
         ELSE <<[call |-> Transfer(asset_id, target, accounts[i].balance), ok |-> FALSE],
                [call |-> Transfer(asset_id, target, accounts[i].balance), ok |-> TRUE]>>
  /\ accounts' = swap_remove(accounts, i)
  /\ emitted' = <<EscrowEvent(caller, EmitSuccess("EscrowAccountReleased"))>>
  /\ ret' = Ok
  /\ UNCHANGED <<asset_id, owner, manager, maximum_accounts, status>>

\* the loop body of release and force_release once accounts[i] is found:
\* call_runtime(Transfer{..}) .map_err(..)?; swap_remove(i); emit; return Ok
\* transfer_ok is the runtime's answer
ReleaseFound(caller, i, target, transfer_ok) ==
  /\ runtime_calls' = <<[call |-> Transfer(asset_id, target, accounts[i].balance),
                         ok |-> transfer_ok]>>
  /\ IF transfer_ok
       THEN /\ accounts' = swap_remove(accounts, i)
            /\ emitted' = <<EscrowEvent(caller, EmitSuccess("EscrowAccountReleased"))>>
            /\ ret' = Ok
       ELSE /\ accounts' = accounts
            /\ emitted' = <<>>
            /\ ret' = Err("CallRuntimeFailed")
  /\ UNCHANGED <<asset_id, owner, manager, maximum_accounts, status>>

release(caller, transfer_ok) ==
  /\ call' = [op |-> "release", caller |-> caller]
  /\ IF EscrowIsClose(status)
       THEN /\ emitted' = <<EscrowEvent(caller, EmitError("EscrowIsClose"))>>
            /\ runtime_calls' = <<>>
            /\ ret' = Ok
            /\ UNCHANGED storage
       ELSE IF Locate(accounts, caller) # 0
       THEN ReleaseFound(caller, Locate(accounts, caller),
                         release_target(accounts[Locate(accounts, caller)]),
                         transfer_ok)
       ELSE /\ emitted' = <<EscrowEvent(caller, EmitError("EscrowAccountNotFound"))>>
            /\ runtime_calls' = <<>>
            /\ ret' = Ok
            /\ UNCHANGED storage

force_release(caller, account, recipient, transfer_ok) ==
  /\ call' = [op |-> "force_release", caller |-> caller, account |-> account,
              recipient |-> recipient]
  /\ IF BadOrigin(caller, manager)
       THEN /\ emitted' = <<EscrowEvent(caller, EmitError("BadOrigin"))>>
            /\ runtime_calls' = <<>>
            /\ ret' = Ok
            /\ UNCHANGED storage
       ELSE IF EscrowIsClose(status)
       THEN /\ emitted' = <<EscrowEvent(caller, EmitError("EscrowIsClose"))>>
            /\ runtime_calls' = <<>>
            /\ ret' = Ok
            /\ UNCHANGED storage
       ELSE IF Locate(accounts, account) # 0
       THEN ReleaseFound(caller, Locate(accounts, account),
                         force_release_target(accounts[Locate(accounts, account)],
                                              recipient),
                         transfer_ok)
       ELSE /\ emitted' = <<EscrowEvent(caller, EmitError("EscrowAccountNotFound"))>>
            /\ runtime_calls' = <<>>
            /\ ret' = Ok
            /\ UNCHANGED storage

----------------------------------------------------------------------------
(* Any caller may send any message with any arguments.                     *)

\* a message from any caller, with arguments drawn from the given sets
Setup(assets) ==
  \E c \in AccountIds, a \in assets, m \in Managers, n \in Capacities :
    setup(c, a, m, n)
Get == \E c \in AccountIds : get(c)
Close == \E c \in AccountIds : close(c)
Open == \E c \in AccountIds : open(c)
Add(amounts, recipients) ==
  \E c \in AccountIds, r \in References, h \in Holders,
     v \in amounts, t \in recipients : add(c, r, h, v, t)
Release == \E c \in AccountIds, ok \in BOOLEAN : release(c, ok)
ForceRelease(recipients) ==
  \E c \in AccountIds, h \in Holders, t \in recipients, ok \in BOOLEAN :
    force_release(c, h, t, ok)

\* a ledger built by default() stays inert until a setup that succeeds gives
\* it a capacity above 0
StaysInert ==
  inert' = ( /\ inert
             /\ ~( /\ call'.op = "setup"
                   /\ emitted' = <<EscrowEvent(call'.caller,
                                               EmitSuccess("EscrowSetupSuccess"))>>
                   /\ call'.maximum_accounts > 0 ) )

\* what is kept of a message besides its effect: the storage it started from
Plain ==
  /\ pre' = now
  /\ StaysInert
  /\ UNCHANGED <<hist, script, prior, books>>

Next ==
  \/ Setup(AssetIds) /\ Plain
  \/ Get /\ Plain
  \/ Close /\ Plain
  \/ Open /\ Plain
  \/ Add(Amounts, Recipients) /\ Plain
  \/ Release /\ Plain
  \/ ForceRelease(Recipients) /\ Plain

Spec == Init /\ [][Next]_vars

\* the transfers of the last message that the runtime accepted
Accepted(calls) == Cardinality({k \in 1..Len(calls) : calls[k].ok})

\* the same, and the two counters, followed up to MaxTransfers transfers
Counted ==
  /\ pre' = now
  /\ StaysInert
  /\ transfers_ok' = transfers_ok + Accepted(runtime_calls')
  /\ released' = released + (IF call'.op \in {"release", "force_release"}
                               THEN Len(accounts) - Len(accounts')
                               ELSE 0)
  /\ transfers_ok' <= MaxTransfers
  /\ UNCHANGED <<script, prior, books>>

\* The same messages with the two counters kept.  What is counted does not
\* depend on the asset, the amount or the recipient, so these are drawn from
\* one-element sets here and the run is followed for more transfers instead.
NextHist ==
  \/ Setup({7}) /\ Counted
  \/ Get /\ Counted
  \/ Close /\ Counted
  \/ Open /\ Counted
  \/ Add({100}, {"dave"}) /\ Counted
  \/ Release /\ Counted
  \/ ForceRelease({"bob"}) /\ Counted

HistSpec == Init /\ [][NextHist]_vars

----------------------------------------------------------------------------
(* Pairs of messages: the message before the last one is kept when it      *)
(* reported success and the last one is the message a claim pairs with it: *)
(* the same setup again, or an add for the holder a release has just freed.*)

\* the holder whose account a release or force_release call is about
Freed(c) == IF c.op = "release" THEN c.caller ELSE c.account

\* message c with events e reported success, and n is paired with it
Pairs(c, e, n) ==
  /\ Len(e) = 1
  /\ e[1].status[1] = "EmitSuccess"
  /\ \/ (c.op = "setup" /\ n = c)
     \/ (c.op \in {"release", "force_release"} /\ n.op = "add" /\ n.account = Freed(c))

Paired ==
  /\ pre' = now
  /\ StaysInert
  /\ prior' = IF Pairs(call, emitted, call')
                THEN [call |-> call, emitted |-> emitted, pre |-> pre]
                ELSE <<>>
  /\ UNCHANGED <<hist, script, books>>

NextPair ==
  \/ Setup(AssetIds) /\ Paired
  \/ Get /\ Paired
  \/ Close /\ Paired
  \/ Open /\ Paired
  \/ Add(Amounts, Recipients) /\ Paired
  \/ Release /\ Paired
  \/ ForceRelease(Recipients) /\ Paired

PairSpec == Init /\ [][NextPair]_vars

----------------------------------------------------------------------------
(* Transfers per account: for the account a holder has, or had last, the   *)
(* transfers handed to call_runtime and those the runtime accepted.  An    *)
(* add that succeeds starts a new account and a new count.  Asset, amount  *)
(* and recipient play no part, so they are drawn from one-element sets.    *)

Tried ==
  /\ pre' = now
  /\ StaysInert
  /\ attempts' =
       IF runtime_calls' # <<>>
         THEN [attempts EXCEPT ![Freed(call')] =
                 [made |-> @.made + Len(runtime_calls'),
                  accepted |-> @.accepted + Accepted(runtime_calls')]]
         ELSE IF /\ call'.op = "add"
                 /\ emitted' = <<EscrowEvent(call'.caller,
                                             EmitSuccess("EscrowAccountAdded"))>>
                THEN [attempts EXCEPT ![call'.account] = [made |-> 0, accepted |-> 0]]
                ELSE attempts
  /\ \A h \in Holders : attempts'[h].made <= MaxAttempts
  /\ UNCHANGED <<hist, script, prior, audit>>

NextAttempt ==
  \/ Setup({7}) /\ Tried
  \/ Get /\ Tried
  \/ Close /\ Tried
  \/ Open /\ Tried
  \/ Add({100}, {"dave"}) /\ Tried
  \/ Release /\ Tried
  \/ ForceRelease({"bob"}) /\ Tried

AttemptSpec == Init /\ [][NextAttempt]_vars

----------------------------------------------------------------------------
(* The books: what add took in, what the runtime accepted for transfer and *)
(* what setup dropped, each read from the message's call, events and       *)
(* runtime calls, followed for up to MaxAdds successful adds.  The ledger  *)
(* starts under either asset and setup moves it to asset 7; managers and   *)
(* recipients play no part in the sums.                                    *)

\* the sum of the balances of a list of accounts
RECURSIVE Balances(_)
Balances(accts) ==
  IF accts = <<>> THEN 0 ELSE Head(accts).balance + Balances(Tail(accts))

\* the sum of the amounts of the transfers the runtime accepted
RECURSIVE Paid(_)
Paid(calls) ==
  IF calls = <<>> THEN 0
  ELSE (IF Head(calls).ok THEN Head(calls).call.amount ELSE 0) + Paid(Tail(calls))

HeldBy(accts) == {accts[i].account : i \in 1..Len(accts)}

Audited ==
  /\ pre' = now
  /\ StaysInert
  /\ LET success(s) == emitted' = <<EscrowEvent(call'.caller, EmitSuccess(s))>>
         added == call'.op = "add" /\ success("EscrowAccountAdded")
         reset == call'.op = "setup" /\ success("EscrowSetupSuccess")
     IN  audit' =
           [adds |-> audit.adds + (IF added THEN 1 ELSE 0),
            added |-> audit.added + (IF added THEN call'.amount ELSE 0),
            paid |-> audit.paid + Paid(runtime_calls'),
            discarded |-> audit.discarded + (IF reset THEN Balances(accounts) ELSE 0),
            under |-> [h \in HeldBy(accounts') |->
                         IF added /\ h = call'.account THEN asset_id
                         ELSE IF h \in DOMAIN audit.under THEN audit.under[h]
                         ELSE asset_id']]
  /\ audit'.adds <= MaxAdds
  /\ UNCHANGED <<hist, script, prior, attempts>>

NextAudit ==
  \/ Setup({7}) /\ Audited
  \/ Get /\ Audited
  \/ Close /\ Audited
  \/ Open /\ Audited
  \/ Add(Amounts, {"dave"}) /\ Audited
  \/ Release /\ Audited
  \/ ForceRelease({"bob"}) /\ Audited

AuditSpec == Init /\ [][NextAudit]_vars

----------------------------------------------------------------------------
(* The scenario: one fixed sequence of messages, played by any five        *)
(* distinct identities; the runtime accepts the transfer.                  *)

Persons == {"alice", "bob", "carol", "dave", "erin"}
Parts == {"owner", "M", "A", "B", "C"}

\* the ways to give the five parts to five distinct identities
Casts == {c \in [Parts -> Persons] : \A p, q \in Parts : c[p] = c[q] => p = q}

ScenarioInit ==
  \E c \in Casts :
    /\ new(c["owner"], 7, 2)
    /\ pc = 0
    /\ cast = c
    /\ prior = <<>>
    /\ NoBooks

\* step k of the scenario has run message m
Step(k, m) ==
  /\ pc = k - 1
  /\ m
  /\ pc' = k
  /\ pre' = now
  /\ StaysInert
  /\ UNCHANGED <<hist, cast, prior, books>>

ScenarioNext ==
  \/ Step(1, setup(cast["owner"], 7, cast["M"], 2))
  \/ Step(2, add(cast["M"], 1, cast["A"], 100, "R"))
  \/ Step(3, add(cast["M"], 2, cast["A"], 50, "R2"))
  \/ Step(4, add(cast["M"], 3, cast["B"], 10, "R3"))
  \/ Step(5, \E v \in Amounts, t \in Recipients : add(cast["M"], 4, cast["C"], v, t))
  \/ Step(6, close(cast["M"]))
  \/ Step(7, release(cast["A"], TRUE))
  \/ Step(8, open(cast["M"]))
  \/ Step(9, release(cast["A"], TRUE))

Scenario == ScenarioInit /\ [][ScenarioNext]_vars

----------------------------------------------------------------------------
(* What the last message reported, and what it found in the storage.       *)

\* the one event of the last message is the error e / the success s
Reports(e) == emitted = <<EscrowEvent(call.caller, EmitError(e))>>
Succeeds(s) == emitted = <<EscrowEvent(call.caller, EmitSuccess(s))>>

\* the entries of a list of accounts, and those of holder h
Entries(accts) == {accts[i] : i \in 1..Len(accts)}
EntriesOf(accts, h) == {a \in Entries(accts) : a.account = h}

\* the last message removed entry a and touched nothing else
RemovedOnly(a) ==
  /\ Entries(accounts) = Entries(pre.accounts) \ {a}
  /\ Len(accounts) = Len(pre.accounts) - 1
  /\ [now EXCEPT !.accounts = pre.accounts] = pre

\* the last message met a transfer the runtime refused
TransferRefused == \E k \in 1..Len(runtime_calls) : ~runtime_calls[k].ok

ManagerOps == {"close", "open", "add", "force_release"}
ResultOps == {"setup", "close", "open", "add", "release", "force_release"}
SoftErrors == {"BadOrigin", "EscrowIsClose", "EscrowAccountDuplicate",
               "EscrowAccountMax", "EscrowAccountNotFound"}
Successes == {"EscrowSetupSuccess", "EscrowCloseSuccess", "EscrowOpenSuccess",
              "EscrowAccountAdded", "EscrowAccountReleased"}

----------------------------------------------------------------------------
\* C1: in every reachable state the number of accounts is at most
\* maximum_accounts; an add by the manager on an open ledger, for a holder
\* not yet held, when the number of accounts equals maximum_accounts,
\* reports EscrowAccountMax and leaves accounts as they were.
C1_Capacity ==
  /\ Len(accounts) <= maximum_accounts
  /\ ( /\ call.op = "add"
       /\ call.caller = pre.manager
       /\ pre.status = 0
       /\ EntriesOf(pre.accounts, call.account) = {}
       /\ Len(pre.accounts) = pre.maximum_accounts )
     => (Reports("EscrowAccountMax") /\ accounts = pre.accounts)

\* a full ledger of positive capacity has just refused a new holder
C1_Witness ==
  /\ call.op = "add"
  /\ call.caller = pre.manager
  /\ pre.status = 0
  /\ pre.maximum_accounts >= 1
  /\ Len(pre.accounts) = pre.maximum_accounts
  /\ EntriesOf(pre.accounts, call.account) = {}
  /\ Reports("EscrowAccountMax")
  /\ accounts = pre.accounts

\* C2: no two entries of accounts have the same holder, in every reachable
\* state; an add by the manager on an open ledger for a holder already held
\* reports EscrowAccountDuplicate and leaves accounts as they were.
C2_Unique ==
  /\ \A i, j \in 1..Len(accounts) :
       accounts[i].account = accounts[j].account => i = j
  /\ ( /\ call.op = "add"
       /\ call.caller = pre.manager
       /\ pre.status = 0
       /\ EntriesOf(pre.accounts, call.account) # {} )
     => (Reports("EscrowAccountDuplicate") /\ accounts = pre.accounts)

\* the holder refused as a duplicate is the second of two entries, and the
\* ledger had room for one more
C2_Witness ==
  /\ call.op = "add"
  /\ call.caller = pre.manager
  /\ pre.status = 0
  /\ Len(pre.accounts) = 2
  /\ pre.accounts[2].account = call.account
  /\ Reports("EscrowAccountDuplicate")
  /\ accounts = pre.accounts

\* C3: a setup by anyone but the owner, and a close, open, add or
\* force_release by anyone but the manager of the moment, reports BadOrigin,
\* leaves the whole storage as it was and hands no transfer to the runtime.
C3_BadOrigin ==
  ( \/ (call.op = "setup" /\ call.caller # pre.owner)
    \/ (call.op \in ManagerOps /\ call.caller # pre.manager) )
  => (Reports("BadOrigin") /\ now = pre /\ runtime_calls = <<>>)

\* the owner, no longer the manager after a setup, is refused a force_release
\* of an account that is held on an open ledger
C3_Witness ==
  /\ pre.manager # pre.owner
  /\ call.op = "force_release"
  /\ call.caller = pre.owner
  /\ pre.status = 0
  /\ EntriesOf(pre.accounts, call.account) # {}
  /\ Reports("BadOrigin")
  /\ now = pre

\* C4: when the runtime refuses the transfer of a release or force_release,
\* the message returns Err, the account it was releasing is still held with
\* the same fields, the rest of the storage is as it was, and no event is
\* emitted.
C4_TransferFailure ==
  (call.op \in {"release", "force_release"} /\ TransferRefused)
  => /\ ret = Err("CallRuntimeFailed")
     /\ emitted = <<>>
     /\ now = pre
     /\ \E a \in Entries(accounts) :
          /\ a.account = (IF call.op = "release" THEN call.caller ELSE call.account)
          /\ a \in Entries(pre.accounts)

\* a release met a refused transfer while two accounts were held
C4_Witness ==
  /\ call.op = "release"
  /\ Len(runtime_calls) = 1
  /\ ~runtime_calls[1].ok
  /\ ret = Err("CallRuntimeFailed")
  /\ Len(pre.accounts) = 2
  /\ EntriesOf(accounts, call.caller) # {}

\* C5: on a closed ledger every add and force_release by the manager and
\* every release by anyone reports EscrowIsClose, hands no transfer to the
\* runtime and leaves the storage as it was, whether or not the account
\* exists; while the ledger is closed only a successful setup changes
\* accounts.
C5_Closed ==
  /\ ( /\ pre.status # 0
       /\ \/ call.op = "release"
          \/ (call.op \in {"add", "force_release"} /\ call.caller = pre.manager) )
     => (Reports("EscrowIsClose") /\ runtime_calls = <<>> /\ now = pre)
  /\ (pre.status # 0 /\ accounts # pre.accounts)
     => (call.op = "setup" /\ Succeeds("EscrowSetupSuccess"))

\* a caller who holds no account is refused a release on a closed ledger that
\* holds accounts
C5_Witness ==
  /\ pre.status = 1
  /\ call.op = "release"
  /\ Len(pre.accounts) >= 1
  /\ EntriesOf(pre.accounts, call.caller) = {}
  /\ Reports("EscrowIsClose")
  /\ now = pre

\* C6: a setup by the owner succeeds in every state: afterwards asset_id,
\* manager and maximum_accounts are the arguments, accounts is empty, the
\* ledger is open, the owner is who it was, and no transfer was handed to the
\* runtime.
C6_Setup ==
  (call.op = "setup" /\ call.caller = pre.owner)
  => /\ Succeeds("EscrowSetupSuccess")
     /\ ret = Ok
     /\ asset_id = call.asset_id
     /\ manager = call.manager
     /\ maximum_accounts = call.maximum_accounts
     /\ accounts = <<>>
     /\ status = 0
     /\ owner = pre.owner
     /\ runtime_calls = <<>>

\* the owner has reset a closed ledger that held two accounts, changing the
\* asset, the manager and the capacity
C6_Witness ==
  /\ call.op = "setup"
  /\ call.caller = pre.owner
  /\ pre.status = 1
  /\ Len(pre.accounts) = 2
  /\ pre.asset_id # call.asset_id
  /\ pre.manager # call.manager
  /\ pre.maximum_accounts # call.maximum_accounts
  /\ accounts = <<>>
  /\ status = 0

\* C7: on an open ledger a release by a caller who holds an account hands the
\* runtime one transfer of that account's balance to that account's recipient
\* under the ledger's asset_id and, when the runtime accepts it, removes that
\* account and no other, every other entry as it was; a release by a caller
\* who holds none reports EscrowAccountNotFound, changes nothing and hands
\* the runtime no transfer.
C7_Release ==
  (call.op = "release" /\ pre.status = 0)
  => /\ \A a \in EntriesOf(pre.accounts, call.caller) :
          /\ Len(runtime_calls) = 1
          /\ runtime_calls[1].call = Transfer(pre.asset_id, a.recipient, a.balance)
          /\ runtime_calls[1].ok
             => (Succeeds("EscrowAccountReleased") /\ RemovedOnly(a))
     /\ (EntriesOf(pre.accounts, call.caller) = {})
        => (Reports("EscrowAccountNotFound") /\ now = pre /\ runtime_calls = <<>>)

\* a caller who is not the manager has released the first of two accounts,
\* and the other account is what is left
C7_Witness ==
  /\ call.op = "release"
  /\ call.caller # pre.manager
  /\ Len(pre.accounts) = 2
  /\ pre.accounts[1].account = call.caller
  /\ Succeeds("EscrowAccountReleased")
  /\ accounts = <<pre.accounts[2]>>

C9_TransferOnce ==
  /\ (call.op \in {"release", "force_release"} /\ Succeeds("EscrowAccountReleased"))
     => (Len(runtime_calls) = 1 /\ runtime_calls[1].ok)
  /\ (call.op \in {"new", "default", "setup", "get", "close", "open", "add"})
     => (runtime_calls = <<>>)
  /\ (\E e \in {"BadOrigin", "EscrowIsClose", "EscrowAccountNotFound"} : Reports(e))
     => (runtime_calls = <<>>)
  /\ transfers_ok = released

\* a third account has just been released by force, after two earlier releases
C9_Witness ==
  /\ call.op = "force_release"
  /\ Succeeds("EscrowAccountReleased")
  /\ transfers_ok = 3
  /\ released = 3

\* C10: a message that reports a soft error leaves the whole storage as it
\* was and returns Ok, as a message that reports success does; a message
\* returns anything else only when the runtime refused a transfer.
C10_SoftErrors ==
  /\ (\E e \in SoftErrors : Reports(e)) => (now = pre /\ ret = Ok)
  /\ (\E s \in Successes : Succeeds(s)) => (ret = Ok)
  /\ (call.op \in ResultOps /\ ret # Ok) => TransferRefused

\* a release by a caller who holds nothing, on an open ledger that holds
\* accounts, has returned Ok with the error in its event
C10_Witness ==
  /\ call.op = "release"
  /\ pre.status = 0
  /\ Len(pre.accounts) >= 1
  /\ Reports("EscrowAccountNotFound")
  /\ ret = Ok
  /\ now = pre

\* the outcome tags a message can end with
Outcomes(op) ==
  CASE op = "setup" -> {EmitSuccess("EscrowSetupSuccess"), EmitError("BadOrigin")}
    [] op = "close" -> {EmitSuccess("EscrowCloseSuccess"), EmitError("BadOrigin")}
    [] op = "open" -> {EmitSuccess("EscrowOpenSuccess"), EmitError("BadOrigin")}
    [] op = "add" -> {EmitSuccess("EscrowAccountAdded"), EmitError("BadOrigin"),
                      EmitError("EscrowIsClose"), EmitError("EscrowAccountDuplicate"),
                      EmitError("EscrowAccountMax")}
    [] op = "release" -> {EmitSuccess("EscrowAccountReleased"),
                          EmitError("EscrowIsClose"), EmitError("EscrowAccountNotFound")}
    [] op = "force_release" -> {EmitSuccess("EscrowAccountReleased"),
                                EmitError("BadOrigin"), EmitError("EscrowIsClose"),
                                EmitError("EscrowAccountNotFound")}
    [] OTHER -> {}

\* the last message emitted one event, with its caller and one of its outcomes
OneEvent ==
  /\ Len(emitted) = 1
  /\ emitted[1].operator = call.caller
  /\ emitted[1].status \in Outcomes(call.op)

\* C11 as stated: every message that does not end in Err, get among them,
\* emits one event with its caller and its outcome tag.
C11_EveryOperation ==
  (call.op \in ResultOps \cup {"get"} /\ ~TransferRefused) => OneEvent

\* C11: every setup, close, open, add, release and force_release that does
\* not end in Err emits exactly one event, with the caller as operator and
\* the outcome of that message as status; get emits no event.
C11_OneEvent ==
  /\ (call.op \in ResultOps /\ ~TransferRefused) => OneEvent
  /\ (call.op = "get") => (emitted = <<>>)

\* a caller other than the owner has had its own identity and the error in
\* the one event of an add
C11_Witness ==
  /\ call.op = "add"
  /\ call.caller # owner
  /\ Len(emitted) = 1
  /\ emitted[1].operator = call.caller
  /\ emitted[1].status = EmitError("EscrowAccountDuplicate")

\* C12: add tests the origin, then the status, then the duplicate, then the
\* capacity: anyone but the manager gets BadOrigin; the manager on a closed
\* ledger gets EscrowIsClose, also for a held holder or a full ledger; the
\* manager on an open ledger gets EscrowAccountDuplicate for a held holder,
\* also when the ledger is full, and EscrowAccountMax only for a new holder.
C12_Precedence ==
  (call.op = "add")
  => LET origin == call.caller # pre.manager
         closed == pre.status # 0
         duplicate == EntriesOf(pre.accounts, call.account) # {}
         full == Len(pre.accounts) >= pre.maximum_accounts
     IN  /\ origin => Reports("BadOrigin")
         /\ (~origin /\ closed) => Reports("EscrowIsClose")
         /\ (~origin /\ ~closed /\ duplicate) => Reports("EscrowAccountDuplicate")
         /\ (~origin /\ ~closed /\ ~duplicate /\ full) => Reports("EscrowAccountMax")
         /\ (~origin /\ ~closed /\ ~duplicate /\ ~full) => Succeeds("EscrowAccountAdded")

\* the manager is told of the duplicate on an open ledger that is also full
C12_Witness ==
  /\ call.op = "add"
  /\ call.caller = pre.manager
  /\ pre.status = 0
  /\ pre.maximum_accounts >= 1
  /\ Len(pre.accounts) = pre.maximum_accounts
  /\ EntriesOf(pre.accounts, call.account) # {}
  /\ Reports("EscrowAccountDuplicate")

\* C13: the owner is the constructing identity in every reachable state and
\* no message changes it; asset_id, manager and maximum_accounts change only
\* in a setup by the owner that reports success.
C13_Frame ==
  /\ owner \in Deployers
  /\ owner = pre.owner
  /\ ( \/ asset_id # pre.asset_id
       \/ manager # pre.manager
       \/ maximum_accounts # pre.maximum_accounts )
     => ( /\ call.op = "setup"
          /\ call.caller = pre.owner
          /\ Succeeds("EscrowSetupSuccess") )

\* a setup has replaced the manager, the asset and the capacity, and the
\* owner is who it was
C13_Witness ==
  /\ call.op = "setup"
  /\ manager # pre.manager
  /\ manager # owner
  /\ asset_id # pre.asset_id
  /\ maximum_accounts # pre.maximum_accounts
  /\ owner = pre.owner

\* C15: a close by the manager leaves the ledger closed and an open by the
\* manager leaves it open, each reporting success whatever the status was,
\* and neither changes anything else; so an open that follows a close finds
\* the accounts that were held before the close.
C15_CloseOpen ==
  /\ [](/\ (call.op = "close" /\ call.caller = pre.manager)
           => ( /\ Succeeds("EscrowCloseSuccess")
                /\ now = [pre EXCEPT !.status = 1] )
        /\ (call.op = "open" /\ call.caller = pre.manager)
           => ( /\ Succeeds("EscrowOpenSuccess")
                /\ now = [pre EXCEPT !.status = 0] ))
  /\ [][ ( /\ call.op = "close"
           /\ Succeeds("EscrowCloseSuccess")
           /\ call'.op = "open"
           /\ call'.caller = manager )
         => (accounts' = pre.accounts /\ status' = 0) ]_vars

\* the manager has opened a ledger that was open already and held accounts
C15_Witness ==
  /\ call.op = "open"
  /\ call.caller = pre.manager
  /\ pre.status = 0
  /\ Len(pre.accounts) >= 1
  /\ Succeeds("EscrowOpenSuccess")
  /\ now = pre

\* what every constructor leaves: the caller as owner and manager, no
\* accounts, an open ledger, and the asset and capacity it was given (0 and 0
\* by default())
Constructed ==
  /\ (call.op \in {"new", "default"})
     => ( /\ owner = call.caller
          /\ manager = call.caller
          /\ accounts = <<>>
          /\ status = 0 )
  /\ (call.op = "new")
     => (asset_id = call.asset_id /\ maximum_accounts = call.maximum_accounts)
  /\ (call.op = "default") => (asset_id = 0 /\ maximum_accounts = 0 /\ inert)

\* C16 as stated: on an inert ledger every add by the manager reports
\* EscrowAccountMax and accounts stays empty.
C16_AlwaysAccountMax ==
  /\ Constructed
  /\ inert => (accounts = <<>>)
  /\ (inert /\ call.op = "add" /\ call.caller = pre.manager)
     => Reports("EscrowAccountMax")

\* C16: a constructor leaves owner = manager = the caller, no accounts and an
\* open ledger; on a ledger built by default(), until a setup gives it a
\* capacity above 0, accounts stays empty and every add by the manager is
\* refused: with EscrowAccountMax while the ledger is open, with
\* EscrowIsClose while it is closed.
C16_Inert ==
  /\ Constructed
  /\ inert => (accounts = <<>> /\ maximum_accounts = 0)
  /\ (inert /\ call.op = "add" /\ call.caller = pre.manager)
     => ( /\ (pre.status = 0) => Reports("EscrowAccountMax")
          /\ (pre.status # 0) => Reports("EscrowIsClose")
          /\ now = pre )

\* on a ledger built by default(), a manager named by a setup that kept the
\* capacity at 0 is refused an add on the open ledger
C16_Witness ==
  /\ inert
  /\ call.op = "add"
  /\ call.caller = pre.manager
  /\ pre.manager # pre.owner
  /\ pre.status = 0
  /\ Reports("EscrowAccountMax")
  /\ accounts = <<>>

\* C17: the scenario runs with the outcomes stated: the setup succeeds, the
\* first add for A succeeds, the second reports EscrowAccountDuplicate, the
\* add for B succeeds, the add for C reports EscrowAccountMax, the close
\* succeeds, the release by A reports EscrowIsClose, the open succeeds, and
\* the release by A succeeds with one transfer of 100 of asset 7 to R,
\* leaving B's entry alone in accounts.
C17_Scenario ==
  /\ (pc = 1) => (Succeeds("EscrowSetupSuccess") /\ manager = cast["M"])
  /\ (pc = 2) => ( /\ Succeeds("EscrowAccountAdded")
                   /\ accounts = <<Account(1, cast["A"], 100, "R")>> )
  /\ (pc = 3) => (Reports("EscrowAccountDuplicate") /\ now = pre)
  /\ (pc = 4) => ( /\ Succeeds("EscrowAccountAdded")
                   /\ accounts = <<Account(1, cast["A"], 100, "R"),
                                   Account(3, cast["B"], 10, "R3")>> )
  /\ (pc = 5) => (Reports("EscrowAccountMax") /\ now = pre)
  /\ (pc = 6) => (Succeeds("EscrowCloseSuccess") /\ status = 1)
  /\ (pc = 7) => (Reports("EscrowIsClose") /\ now = pre /\ runtime_calls = <<>>)
  /\ (pc = 8) => (Succeeds("EscrowOpenSuccess") /\ status = 0)
  /\ (pc = 9) => ( /\ Succeeds("EscrowAccountReleased")
                   /\ ret = Ok
                   /\ runtime_calls = <<[call |-> Transfer(7, "R", 100), ok |-> TRUE]>>
                   /\ accounts = <<Account(3, cast["B"], 10, "R3")>> )

\* the scenario has run to its end, with the manager a third identity
C17_Witness ==
  /\ pc = 9
  /\ call = [op |-> "release", caller |-> cast["A"]]
  /\ manager = cast["M"]
  /\ owner = cast["owner"]
  /\ Len(accounts) = 1
  /\ accounts[1].account = cast["B"]

\* C14: a setup by the owner, run again at once by the same caller with the
\* same arguments, succeeds again and leaves the storage the first one left.
C14_SetupTwice ==
  (prior # <<>> /\ prior.call.op = "setup" /\ call = prior.call)
  => (Succeeds("EscrowSetupSuccess") /\ now = pre)

\* the second of two equal setups, the first of which reset a closed ledger
\* holding two accounts and named another manager
C14_Witness ==
  /\ prior # <<>>
  /\ prior.call.op = "setup"
  /\ call = prior.call
  /\ prior.pre.status = 1
  /\ Len(prior.pre.accounts) = 2
  /\ prior.pre.manager # call.manager
  /\ prior.pre.maximum_accounts # call.maximum_accounts
  /\ now = pre

\* C20: directly after a release or force_release that reported success, an
\* add by the manager for the holder just released succeeds, whatever its
\* reference, amount and recipient and whether or not the ledger was full
\* before the release, and the new entry carries the arguments of the add.
C20_AddAfterRelease ==
  ( /\ prior # <<>>
    /\ prior.call.op \in {"release", "force_release"}
    /\ call.op = "add"
    /\ call.account = Freed(prior.call)
    /\ call.caller = pre.manager )
  => ( /\ Succeeds("EscrowAccountAdded")
       /\ accounts = Append(pre.accounts,
                            Account(call.reference, call.account,
                                    call.amount, call.recipient))
       /\ [now EXCEPT !.accounts = pre.accounts] = pre )

\* a holder released from a full ledger of two accounts has been added again
\* with another amount and another recipient
C20_Witness ==
  /\ prior # <<>>
  /\ prior.call.op = "release"
  /\ call.op = "add"
  /\ call.account = prior.call.caller
  /\ Len(prior.pre.accounts) = 2
  /\ prior.pre.maximum_accounts = 2
  /\ \E a \in EntriesOf(prior.pre.accounts, call.account) :
       a.balance # call.amount /\ a.recipient # call.recipient
  /\ Succeeds("EscrowAccountAdded")
  /\ Len(accounts) = 2
  /\ accounts[2].balance = call.amount
  /\ accounts[2].recipient = call.recipient


\* C18 as stated: for any one account, call_runtime is handed a transfer at
\* most once, also when the runtime may refuse it.
C18_AtMostOnce == \A h \in Holders : attempts[h].made <= 1

\* C18: a message hands call_runtime at most one transfer; a transfer the
\* runtime refuses removes nothing and leaves the storage as it was, so the
\* same account can be tried again by a later message; for any one account
\* the runtime accepts at most one transfer, the account is gone once it has,
\* and every transfer made for an account still held was refused.
C18_NoRemovalOnFailure ==
  /\ Len(runtime_calls) <= 1
  /\ TransferRefused => (now = pre /\ emitted = <<>> /\ ret = Err("CallRuntimeFailed"))
  /\ \A h \in Holders :
       /\ attempts[h].accepted <= 1
       /\ attempts[h].accepted <= attempts[h].made
       /\ attempts[h].accepted = 1 => EntriesOf(accounts, h) = {}
       /\ EntriesOf(accounts, h) # {} => attempts[h].accepted = 0

\* a transfer for one account was refused, tried again by a later message,
\* accepted, and the account removed
C18_Witness ==
  \E h \in Holders :
    /\ attempts[h].made = 2
    /\ attempts[h].accepted = 1
    /\ EntriesOf(pre.accounts, h) # {}
    /\ EntriesOf(accounts, h) = {}
    /\ Succeeds("EscrowAccountReleased")

\* C19: the sum of the amounts added equals the sum of the balances held plus
\* the sum the runtime accepted for transfer plus the sum of the balances
\* setup dropped; an account leaves the list only by a successful release or
\* force_release whose one accepted transfer carries its stored balance under
\* the ledger's asset_id, or by a successful setup that makes no transfer; and
\* every account held was added under the asset_id the ledger has now.
C19_Conservation ==
  /\ audit.added = Balances(accounts) + audit.paid + audit.discarded
  /\ DOMAIN audit.under = HeldBy(accounts)
  /\ \A h \in DOMAIN audit.under : audit.under[h] = asset_id
  /\ \A a \in Entries(pre.accounts) \ Entries(accounts) :
       \/ /\ call.op \in {"release", "force_release"}
          /\ Succeeds("EscrowAccountReleased")
          /\ Len(runtime_calls) = 1
          /\ runtime_calls[1].ok
          /\ runtime_calls[1].call.id = pre.asset_id
          /\ runtime_calls[1].call.amount = a.balance
          /\ a.account = Freed(call)
          /\ RemovedOnly(a)
       \/ /\ call.op = "setup"
          /\ Succeeds("EscrowSetupSuccess")
          /\ runtime_calls = <<>>
          /\ accounts = <<>>

\* two accounts of different amounts were added under asset 0, one was paid
\* out and the other dropped by a setup that moved the ledger to asset 7
C19_Witness ==
  /\ audit.adds = 2
  /\ audit.paid > 0
  /\ audit.discarded > 0
  /\ audit.paid # audit.discarded
  /\ call.op = "setup"
  /\ pre.asset_id = 0
  /\ asset_id = 7

====
